---- MODULE Spec2Model ----
(***************************************************************************)
(* A state-machine model of the recursive-descent LaTeX expression parser  *)
(* of src/parser.go.  The Go call stack is made explicit: every activation *)
(* of parse, parseMathExpr, parseSup, parseSub, parseMathLbrace,           *)
(* parseMacroArg, parseOptMacroArg and of a macro behaviour is a frame of  *)
(* `stack`, and every function return is an observable state in which      *)
(* `ret` holds the returned (node, error) pair.                            *)
(***************************************************************************)
EXTENDS Integers, Sequences, FiniteSets, TLC

VARIABLES
    toks,    \* the token stream the scanner will deliver (fixed by Init)
    pos,     \* number of tokens the scanner has delivered so far
    tok,     \* p.s.tok: the scanner's current token
    state,   \* p.state: "normalState" or "mathState"
    stack,   \* the Go call stack, innermost activation last
    ret,     \* the value being returned to the innermost activation, or NoRet
    result,  \* what ParseExpr returned, once it has returned
    run,     \* which call of ParseExpr this is (1 or 2)
    first    \* what the first call of ParseExpr returned

vars == <<toks, pos, tok, state, stack, ret, result, run, first>>

----------------------------------------------------------------------------
\* Bounds of the model.

\* Longest token stream drawn from the whole alphabet.
MaxLen == 3

----------------------------------------------------------------------------
\* Tokens (token.Token: kind, text, position).

Tok(k, t) == [kind |-> k, text |-> t]

TWord    == Tok("Word", "x")
TNumber  == Tok("Number", "2")
TPlus    == Tok("Symbol", "+")
TDollar  == Tok("Symbol", "$")
THat     == Tok("Symbol", "^")
TUnder   == Tok("Symbol", "_")
TSpace   == Tok("Space", " ")
TComment == Tok("Comment", "%c")
TLbrace  == Tok("Lbrace", "{")
TRbrace  == Tok("Rbrace", "}")
TLbrack  == Tok("Lbrack", "[")
TRbrack  == Tok("Rbrack", "]")
TLparen  == Tok("Lparen", "(")
TRparen  == Tok("Rparen", ")")
TOther   == Tok("Other", "?")
TFoo     == Tok("Macro", "\\foo")
TUnknown == Tok("Macro", "\\unknownmacro")

Alphabet ==
    { TWord, TNumber, TPlus, TDollar, THat, TUnder, TSpace, TComment,
      TLbrace, TRbrace, TLbrack, TRbrack, TOther, TFoo, TUnknown }

\* The token at index i of the stream, with its position.
At(ts, i) == [kind |-> ts[i].kind, text |-> ts[i].text, pos |-> i]

\* token.Token{Kind: token.EOF}
EOFTok == [kind |-> "EOF", text |-> "", pos |-> 0]

----------------------------------------------------------------------------
\* AST nodes (package ast).  Nil is the nil ast.Node.

Nil == [kind |-> "nil", text |-> "", pos |-> 0, right |-> 0, kids |-> <<>>]

Node(k, t, p, r, ks) ==
    [kind |-> k, text |-> t, pos |-> p, right |-> r, kids |-> ks]

\* ast.List: a non-nil node even when it holds no element.
List(ks) == Node("List", "", 0, 0, ks)

\* Errors.  NoErr is the nil error.
NoErr == [kind |-> "nil", arg |-> ""]
Err(k, a) == [kind |-> k, arg |-> a]

\* A returned value; NoRet when nothing is being returned.
NoRet == [fn |-> "none", node |-> Nil, err |-> NoErr, how |-> "none"]
Ret(f, n, e, h) == [fn |-> f, node |-> n, err |-> e, how |-> h]

----------------------------------------------------------------------------
\* The macro registry (p.macros): name -> the argument kinds its behaviour
\* parses, "O" an optional argument and "A" a mandatory one.
macros == [n \in {"\\foo"} |-> <<"O", "A">>]

----------------------------------------------------------------------------
\* The token source (texScanner).

\* The zero token.Token a fresh scanner holds before its first Next.
ZeroTok == [kind |-> "Invalid", text |-> "", pos |-> 0]

\* p.s.Next() reports whether a token was produced.
HasNext == pos < Len(toks)

\* p.s.tok after p.s.Next().
ScanTok == IF HasNext THEN At(toks, pos + 1) ELSE EOFTok

\* The scanner's position after p.s.Next().
ScanPos == IF HasNext THEN pos + 1 ELSE pos

\* p.s.sc.Peek(): the next raw character.  Of the tokens of the model only
\* Lbrace starts with '{' and only Lbrack with '[', so the character is
\* represented by the text of the token that starts with it.
Peek == IF HasNext THEN toks[pos + 1].text ELSE "EOF"

\* p.next(): the token p.s.Next() produced, or token.Token{Kind: token.EOF}.
next == IF HasNext THEN At(toks, pos + 1) ELSE EOFTok

\* p.expect(v): advances, and reports an error when the text of the token it
\* reached is not v.
expect(v) ==
    IF ScanTok.text # v THEN Err("expected", v) ELSE NoErr

----------------------------------------------------------------------------
\* Activations.

Frame(f, t) ==
    [fn |-> f, phase |-> "entry", tok |-> t, list |-> <<>>,
     saved |-> "normalState", end |-> "", rest |-> <<>>, rpos |-> 0]

Top == stack[Len(stack)]

Front(s) == SubSeq(s, 1, Len(s) - 1)

\* The stack with its innermost activation replaced by f.
WithTop(f) == [stack EXCEPT ![Len(stack)] = f]

Running(f) == stack # <<>> /\ Top.fn = f /\ ret = NoRet

Returning(f) == stack # <<>> /\ Top.fn = f /\ ret # NoRet

\* What ParseExpr has returned; set is FALSE while it is still running.
NoResult == [set |-> FALSE, node |-> Nil, err |-> NoErr]

\* The innermost activation returns (n, e): it is popped, and the value is
\* handed to its caller.  When it is the outermost activation, ParseExpr
\* returns the value.
Return(n, e, h) ==
    /\ stack' = Front(stack)
    /\ ret' = Ret(Top.fn, n, e, h)
    /\ result' = IF Len(stack) = 1
                 THEN [set |-> TRUE, node |-> n, err |-> e]
                 ELSE result

----------------------------------------------------------------------------
\* Leaf nodes.

parseWord(t) == Node("Word", t.text, t.pos, 0, <<>>)

parseNumber(t) == Node("Literal", t.text, t.pos, 0, <<>>)

parseSymbol(t) == Node("Symbol", t.text, t.pos, 0, <<>>)

\* An immediate return of parseNode, and a call it delegates to.
Value(n, e) == [push |-> FALSE, frame |-> Frame("none", ZeroTok),
                ret |-> Ret("parseNode", n, e, IF e = NoErr THEN "value" ELSE "err")]
Call(f) == [push |-> TRUE, frame |-> f, ret |-> NoRet]

\* An unknown macro skipped (`return nil') instead of reported.
parseMacroSkipsUnknown(t) ==
    IF t.text \notin DOMAIN macros
    THEN Value(Nil, NoErr)
    ELSE Call([Frame("macroParser", t) EXCEPT !.rest = macros[t.text]])

\* parseMacro: the registry lookup; a registered behaviour is invoked with
\* the parser.
parseMacro(t) ==
    IF t.text \notin DOMAIN macros
    THEN Value(Nil, Err("unknown macro", t.text))
    ELSE Call([Frame("macroParser", t) EXCEPT !.rest = macros[t.text]])

\* A Space token wrapped as a Symbol whatever the mode.
spaceNodeAnyMode(t) == parseSymbol(t)

\* parseNode, case token.Space: no node in Math mode, a Symbol otherwise.
spaceNode(t) ==
    IF state = "mathState" THEN Nil ELSE parseSymbol(t)

\* A `{' handed to parseMathLbrace whatever the mode.
lbraceNodeAnyMode(t) == Call(Frame("parseMathLbrace", t))

\* parseNode, case token.Lbrace: grouped-brace parsing in Math mode, an
\* error otherwise.
lbraceNode(t) ==
    IF state = "mathState"
    THEN Call(Frame("parseMathLbrace", t))
    ELSE Value(Nil, Err("lbrace unMathState not implemented", ""))

\* parseNode: the dispatch on the kind of the token, then on its text or on
\* the mode.
parseNode(t) ==
    CASE t.kind = "Comment" -> Value(Nil, NoErr)
      [] t.kind = "Macro" -> parseMacro(t)
      [] t.kind = "Word" -> Value(parseWord(t), NoErr)
      [] t.kind = "Number" -> Value(parseNumber(t), NoErr)
      [] t.kind = "Symbol" ->
            CASE t.text = "$" -> Call(Frame("parseMathExpr", t))
              [] t.text = "^" -> Call(Frame("parseSup", t))
              [] t.text = "_" -> Call(Frame("parseSub", t))
              [] OTHER -> Value(parseSymbol(t), NoErr)
      [] t.kind = "Lbrace" -> lbraceNode(t)
      [] t.kind = "Other" -> Value(Nil, Err("not implemented", t.text))
      [] t.kind = "Space" -> Value(spaceNode(t), NoErr)
      [] t.kind \in {"Lparen", "Rparen", "Lbrack", "Rbrack"} ->
            Value(parseSymbol(t), NoErr)
      [] OTHER -> Value(Nil, Err("impossible", t.kind))

\* The activation f calls p.parseNode(t): either parseNode returns at once,
\* or the function it delegates to is entered.
CallNode(f, t) ==
    LET o == parseNode(t) IN
    /\ stack' = IF o.push THEN Append(WithTop(f), o.frame) ELSE WithTop(f)
    /\ ret' = o.ret
    /\ result' = result

\* The activation goes on with f, nothing being returned any more.
Continue(f) ==
    /\ stack' = WithTop(f)
    /\ ret' = NoRet
    /\ result' = result

\* A scanner whose Next produces the token it is on again, without moving.
AdvanceNoProgress ==
    /\ pos' = pos
    /\ tok' = IF HasNext THEN At(toks, pos + 1) ELSE EOFTok

\* `for p.s.Next()': the scanner advances.
Advance ==
    /\ pos' = ScanPos
    /\ tok' = ScanTok

\* The body every parsing loop shares once parseNode has returned: a nil
\* node is skipped, any other node is appended.
Appended == IF ret.node = Nil THEN Top ELSE [Top EXCEPT !.list = Append(@, ret.node)]

----------------------------------------------------------------------------
\* newParser: a fresh scanner over the text x, and the mode Normal.

\* A parser that takes over the scanner of the call before it, at the
\* position that call left it.
newParserReused(x) ==
    [toks |-> x, pos |-> IF result.set THEN pos ELSE 0, tok |-> ZeroTok,
     state |-> "normalState"]

newParser(x) == [toks |-> x, pos |-> 0, tok |-> ZeroTok, state |-> "normalState"]

\* ParseExpr: `p := newParser(x)' and p.parse() entered.
Start(p) ==
    /\ toks = p.toks
    /\ pos = p.pos
    /\ tok = p.tok
    /\ state = p.state
    /\ stack = <<Frame("parse", ZeroTok)>>

----------------------------------------------------------------------------
\* parser.parse: the top-level loop.

parse ==
    \/ /\ Running("parse")
       /\ HasNext
       /\ Advance
       /\ CallNode(Top, ScanTok)
       /\ UNCHANGED <<toks, state, run, first>>
    \/ /\ Running("parse")
       /\ ~HasNext
       /\ Advance
       /\ Return(List(Top.list), NoErr, "eof")
       /\ UNCHANGED <<toks, state, run, first>>
    \/ /\ Returning("parse")
       /\ ret.err # NoErr
       /\ Return(Nil, ret.err, "err")
       /\ UNCHANGED <<toks, pos, tok, state, run, first>>
    \/ /\ Returning("parse")
       /\ ret.err = NoErr
       /\ Continue(Appended)
       /\ UNCHANGED <<toks, pos, tok, state, run, first>>

----------------------------------------------------------------------------
\* parser.parseMathExpr.

\* The closing delimiter of an opening one; "begin" and "unsupported" stand
\* for the two error returns of the switch.
mathEnd(text) ==
    CASE text = "$" -> "$"
      [] text = "\\(" -> "\\)"
      [] text = "\\[" -> "\\]"
      [] text = "\\begin" -> "begin"
      [] OTHER -> "unsupported"

\* The deferred function left out: the mode stays what the call made it.
deferredNoRestore(f) == state

\* `defer func() { p.state = state }()': the mode parseMathExpr leaves
\* behind when the activation f returns.
deferred(f) == f.saved

\* The ast.MathExpr under construction in the activation f.
mathOf(f) == Node("MathExpr", f.tok.text, f.tok.pos, f.rpos, f.list)

parseMathExpr ==
    \/ /\ Running("parseMathExpr")
       /\ Top.phase = "entry"
       /\ IF mathEnd(Top.tok.text) \in {"begin", "unsupported"}
          THEN /\ Return(Nil, Err(mathEnd(Top.tok.text), Top.tok.text), "err")
               /\ state' = state
          ELSE /\ Continue([Top EXCEPT !.phase = "loop", !.saved = state,
                                       !.end = mathEnd(Top.tok.text)])
               /\ state' = "mathState"
       /\ UNCHANGED <<toks, pos, tok, run, first>>
    \/ /\ Running("parseMathExpr")
       /\ Top.phase = "loop"
       /\ HasNext
       /\ Advance
       /\ IF ScanTok.text = Top.end
          THEN /\ Return(mathOf([Top EXCEPT !.rpos = ScanTok.pos]), NoErr, "close")
               /\ state' = deferred(Top)
          ELSE /\ CallNode(Top, ScanTok)
               /\ state' = state
       /\ UNCHANGED <<toks, run, first>>
    \/ /\ Running("parseMathExpr")
       /\ Top.phase = "loop"
       /\ ~HasNext
       /\ Advance
       /\ Return(mathOf(Top), NoErr, "eof")
       /\ state' = deferred(Top)
       /\ UNCHANGED <<toks, run, first>>
    \/ /\ Returning("parseMathExpr")
       /\ ret.err # NoErr
       /\ Return(Nil, ret.err, "err")
       /\ state' = deferred(Top)
       /\ UNCHANGED <<toks, pos, tok, run, first>>
    \/ /\ Returning("parseMathExpr")
       /\ ret.err = NoErr
       /\ Continue(Appended)
       /\ UNCHANGED <<toks, pos, tok, state, run, first>>

----------------------------------------------------------------------------
\* parser.parseSup and parser.parseSub.

\* The ast.Sup / ast.Sub of the activation f with the child c.
supOf(f, c) == Node("Sup", f.tok.text, f.tok.pos, 0, <<c>>)

subOf(f, c) == Node("Sub", f.tok.text, f.tok.pos, 0, <<c>>)

\* parseSup ending its unbraced case as parseSub does, with `return nil, err'.
supSingleDropsNode(f, n, e) == [node |-> Nil, err |-> e]

\* parseSup returning the Sup it has built along with the error.
supSingleKeepsNode(f, n, e) == [node |-> supOf(f, n), err |-> e]

\* parseSup, no '{' next: `hat.Node, err = p.parseNode(p.next())', an error
\* returned as (nil, err), and `return hat, nil' otherwise.
supSingle(f, n, e) ==
    IF e # NoErr
    THEN [node |-> Nil, err |-> e]
    ELSE [node |-> supOf(f, n), err |-> NoErr]

\* parseSub, no '{' next: `sub.Node, err = p.parseNode(p.next())' and then
\* `return nil, err'.
subSingle(f, n, e) == [node |-> Nil, err |-> e]

parseSup ==
    \/ /\ Running("parseSup")
       /\ Top.phase = "entry"
       /\ Peek = "{"
       /\ Advance
       /\ Continue([Top EXCEPT !.phase = "group"])
       /\ UNCHANGED <<toks, state, run, first>>
    \/ /\ Running("parseSup")
       /\ Top.phase = "entry"
       /\ Peek # "{"
       /\ Advance
       /\ CallNode([Top EXCEPT !.phase = "single"], next)
       /\ UNCHANGED <<toks, state, run, first>>
    \/ /\ Running("parseSup")
       /\ Top.phase = "group"
       /\ HasNext
       /\ Advance
       /\ IF ScanTok.kind = "Rbrace"
          THEN Return(supOf(Top, List(Top.list)), NoErr, "close")
          ELSE CallNode(Top, ScanTok)
       /\ UNCHANGED <<toks, state, run, first>>
    \/ /\ Running("parseSup")
       /\ Top.phase = "group"
       /\ ~HasNext
       /\ Advance
       /\ Return(supOf(Top, List(Top.list)), NoErr, "eof")
       /\ UNCHANGED <<toks, state, run, first>>
    \/ /\ Returning("parseSup")
       /\ Top.phase = "group"
       /\ IF ret.err # NoErr
          THEN Return(Nil, ret.err, "err")
          ELSE Continue(Appended)
       /\ UNCHANGED <<toks, pos, tok, state, run, first>>
    \/ /\ Returning("parseSup")
       /\ Top.phase = "single"
       /\ LET r == supSingle(Top, ret.node, ret.err) IN
            Return(r.node, r.err, "single")
       /\ UNCHANGED <<toks, pos, tok, state, run, first>>

parseSub ==
    \/ /\ Running("parseSub")
       /\ Top.phase = "entry"
       /\ Peek = "{"
       /\ Advance
       /\ Continue([Top EXCEPT !.phase = "group"])
       /\ UNCHANGED <<toks, state, run, first>>
    \/ /\ Running("parseSub")
       /\ Top.phase = "entry"
       /\ Peek # "{"
       /\ Advance
       /\ CallNode([Top EXCEPT !.phase = "single"], next)
       /\ UNCHANGED <<toks, state, run, first>>
    \/ /\ Running("parseSub")
       /\ Top.phase = "group"
       /\ HasNext
       /\ Advance
       /\ IF ScanTok.kind = "Rbrace"
          THEN Return(subOf(Top, List(Top.list)), NoErr, "close")
          ELSE CallNode(Top, ScanTok)
       /\ UNCHANGED <<toks, state, run, first>>
    \/ /\ Running("parseSub")
       /\ Top.phase = "group"
       /\ ~HasNext
       /\ Advance
       /\ Return(subOf(Top, List(Top.list)), NoErr, "eof")
       /\ UNCHANGED <<toks, state, run, first>>
    \/ /\ Returning("parseSub")
       /\ Top.phase = "group"
       /\ IF ret.err # NoErr
          THEN Return(Nil, ret.err, "err")
          ELSE Continue(Appended)
       /\ UNCHANGED <<toks, pos, tok, state, run, first>>
    \/ /\ Returning("parseSub")
       /\ Top.phase = "single"
       /\ LET r == subSingle(Top, ret.node, ret.err) IN
            Return(r.node, r.err, "single")
       /\ UNCHANGED <<toks, pos, tok, state, run, first>>

----------------------------------------------------------------------------
\* parser.parseMathLbrace.

\* The closing kind of an opening kind; "Invalid" when the map has none.
rdelim(kind) ==
    CASE kind = "Lbrace" -> "Rbrace"
      [] kind = "Lparen" -> "Rparen"
      [] OTHER -> "Invalid"

parseMathLbrace ==
    \/ /\ Running("parseMathLbrace")
       /\ Top.phase = "entry"
       /\ IF rdelim(Top.tok.kind) = "Invalid"
          THEN Return(Nil, Err("impossible: no matching right-delim", Top.tok.text), "err")
          ELSE Continue([Top EXCEPT !.phase = "loop", !.end = rdelim(Top.tok.kind)])
       /\ UNCHANGED <<toks, pos, tok, state, run, first>>
    \/ /\ Running("parseMathLbrace")
       /\ Top.phase = "loop"
       /\ HasNext
       /\ Advance
       /\ IF ScanTok.kind = Top.end
          THEN Return(List(Top.list), NoErr, "close")
          ELSE CallNode(Top, ScanTok)
       /\ UNCHANGED <<toks, state, run, first>>
    \/ /\ Running("parseMathLbrace")
       /\ Top.phase = "loop"
       /\ ~HasNext
       /\ Advance
       /\ Return(List(Top.list), NoErr, "eof")
       /\ UNCHANGED <<toks, state, run, first>>
    \/ /\ Returning("parseMathLbrace")
       /\ IF ret.err # NoErr
          THEN Return(Nil, ret.err, "err")
          ELSE Continue(Appended)
       /\ UNCHANGED <<toks, pos, tok, state, run, first>>

----------------------------------------------------------------------------
\* Macro behaviours (macroParser.parseMacro) and the argument protocol.

\* The ast.Macro of the activation f: its name and the arguments appended
\* so far.
macroOf(f) == Node("Macro", f.tok.text, f.tok.pos, 0, f.list)

\* parseMacro, the name found: `return macro.parseMacro(p), nil'.
parseMacroResult(node) == [node |-> node, err |-> NoErr]

\* A behaviour parses its arguments in the order of its signature and
\* returns the Macro node.  An argument parser's error reaches the behaviour
\* only, whose result is a node: it goes on with its next argument.
macroParser ==
    \/ /\ Running("macroParser")
       /\ Top.rest = <<>>
       /\ LET r == parseMacroResult(macroOf(Top)) IN
            Return(r.node, r.err, "value")
       /\ UNCHANGED <<toks, pos, tok, state, run, first>>
    \/ /\ Running("macroParser")
       /\ Top.rest # <<>>
       /\ stack' = Append(WithTop([Top EXCEPT !.rest = Tail(@)]),
                          Frame(IF Head(Top.rest) = "A"
                                THEN "parseMacroArg"
                                ELSE "parseOptMacroArg", tok))
       /\ UNCHANGED <<toks, pos, tok, state, ret, result, run, first>>
    \/ /\ Returning("macroParser")
       /\ Continue(Top)
       /\ UNCHANGED <<toks, pos, tok, state, run, first>>

\* The ast.Arg / ast.OptArg of the activation f, closed at position r.
argOf(f, r) == Node("Arg", "", f.tok.pos, r, f.list)

optArgOf(f, r) == Node("OptArg", "", f.tok.pos, r, f.list)

\* The argument put in front of the macro's arguments instead of behind them.
ReturnArgPrepends(a, h) ==
    /\ stack' = [Front(stack) EXCEPT ![Len(stack) - 1].list = <<a>> \o @]
    /\ ret' = Ret(Top.fn, Nil, NoErr, h)
    /\ result' = result

\* `macro.Args = append(macro.Args, &arg)' followed by `return nil': the
\* argument lands in the behaviour's Macro node, and the parser returns.
ReturnArg(a, h) ==
    /\ stack' = [Front(stack) EXCEPT ![Len(stack) - 1].list = Append(@, a)]
    /\ ret' = Ret(Top.fn, Nil, NoErr, h)
    /\ result' = result

\* parseMacroArg, its first two statements: `p.expect('{')', whose result e
\* is not looked at, and `arg.Lbrace = p.s.tok.Pos'.
macroArgOpen(f, e) == [f EXCEPT !.phase = "loop", !.tok = ScanTok]

parseMacroArg ==
    \/ /\ Running("parseMacroArg")
       /\ Top.phase = "entry"
       /\ Advance
       /\ Continue(macroArgOpen(Top, expect("{")))
       /\ UNCHANGED <<toks, state, run, first>>
    \/ /\ Running("parseMacroArg")
       /\ Top.phase = "loop"
       /\ HasNext
       /\ Advance
       /\ IF ScanTok.kind = "Rbrace"
          THEN ReturnArg(argOf(Top, ScanTok.pos), "close")
          ELSE CallNode(Top, ScanTok)
       /\ UNCHANGED <<toks, state, run, first>>
    \/ /\ Running("parseMacroArg")
       /\ Top.phase = "loop"
       /\ ~HasNext
       /\ Advance
       /\ ReturnArg(argOf(Top, 0), "eof")
       /\ UNCHANGED <<toks, state, run, first>>
    \/ /\ Returning("parseMacroArg")
       /\ IF ret.err # NoErr
          THEN Return(Nil, ret.err, "err")
          ELSE Continue(Appended)
       /\ UNCHANGED <<toks, pos, tok, state, run, first>>

\* An optional argument parsed without looking at the next character.
optArgAbsentNever == FALSE

\* parseOptMacroArg, `nxt := p.s.sc.Peek(); if nxt != '[' { return nil }'.
optArgAbsent == Peek # "["

parseOptMacroArg ==
    \/ /\ Running("parseOptMacroArg")
       /\ Top.phase = "entry"
       /\ optArgAbsent
       /\ Return(Nil, NoErr, "absent")
       /\ UNCHANGED <<toks, pos, tok, state, run, first>>
    \/ /\ Running("parseOptMacroArg")
       /\ Top.phase = "entry"
       /\ ~optArgAbsent
       /\ Advance
       /\ Continue([Top EXCEPT !.phase = "loop", !.tok = ScanTok])
       /\ UNCHANGED <<toks, state, run, first>>
    \/ /\ Running("parseOptMacroArg")
       /\ Top.phase = "loop"
       /\ HasNext
       /\ Advance
       /\ IF ScanTok.kind = "Rbrack"
          THEN ReturnArg(optArgOf(Top, ScanTok.pos), "close")
          ELSE CallNode(Top, ScanTok)
       /\ UNCHANGED <<toks, state, run, first>>
    \/ /\ Running("parseOptMacroArg")
       /\ Top.phase = "loop"
       /\ ~HasNext
       /\ Advance
       /\ ReturnArg(optArgOf(Top, 0), "eof")
       /\ UNCHANGED <<toks, state, run, first>>
    \/ /\ Returning("parseOptMacroArg")
       /\ IF ret.err # NoErr
          THEN Return(Nil, ret.err, "err")
          ELSE Continue(Appended)
       /\ UNCHANGED <<toks, pos, tok, state, run, first>>

----------------------------------------------------------------------------
\* The inputs: every token stream of at most MaxLen tokens of the alphabet,
\* and the prefixes of some longer streams.

TWordY   == Tok("Word", "y")
TWordOpt == Tok("Word", "opt")
TWordMand == Tok("Word", "mand")
TThree   == Tok("Number", "3")

Samples ==
    { <<TDollar, TWord, TSpace, TPlus, TSpace, TWordY, TDollar>>,
      <<TWord, THat, TLbrace, TNumber, TThree, TRbrace>>,
      <<TFoo, TLbrack, TWordOpt, TRbrack, TLbrace, TWordMand, TRbrace>>,
      <<TFoo, TLbrace, TDollar, TWord, TUnder, TLbrace, TUnknown, TRbrace>>,
      <<TDollar, TLbrace, TLparen, TWord, TRparen, TRbrace, THat, TSpace, TDollar>>,
      <<TWord, TSpace, TDollar, TWord, TUnder, TNumber, TDollar, TComment>>,
      <<TDollar, TLbrace, TDollar, TWord, TOther>>,
      <<TDollar, TLbrace, TDollar, TWord, TDollar, TRbrace, TDollar, TWord>> }

Prefixes(ts) == { SubSeq(ts, 1, n) : n \in 0..Len(ts) }

Inputs ==
    UNION { [1..n -> Alphabet] : n \in 0..MaxLen }
      \cup UNION { Prefixes(ts) : ts \in Samples }

----------------------------------------------------------------------------
\* The specification: one call of ParseExpr on any input.

Init ==
    /\ run = 1
    /\ first = NoResult
    /\ ret = NoRet
    /\ result = NoResult
    /\ \E x \in Inputs : Start(newParser(x))

Next ==
    \/ parse
    \/ parseMathExpr
    \/ parseSup
    \/ parseSub
    \/ parseMathLbrace
    \/ macroParser
    \/ parseMacroArg
    \/ parseOptMacroArg

Spec == Init /\ [][Next]_vars

\* ParseExpr called a second time on the same text, once the first call has
\* returned.
ParseExpr ==
    /\ stack = <<>>
    /\ run = 1
    /\ run' = 2
    /\ first' = result
    /\ LET p == newParser(toks) IN
         /\ toks' = p.toks
         /\ pos' = p.pos
         /\ tok' = p.tok
         /\ state' = p.state
    /\ stack' = <<Frame("parse", ZeroTok)>>
    /\ ret' = NoRet
    /\ result' = NoResult

\* Two calls of ParseExpr, one after the other, on any input.
SpecTwice == Init /\ [][Next \/ ParseExpr]_vars

\* ParseExpr runs to its return: no step of the parser is held back for ever
\* (one goroutine, no blocking call).
SpecFair == Spec /\ WF_vars(Next)

----------------------------------------------------------------------------
\* Properties.

\* The activations of the stack.
Frames == { stack[i] : i \in 1..Len(stack) }

\* Some token of the stream is a registered macro.
HasRegisteredMacro(ts) ==
    \E i \in 1..Len(ts) : ts[i].kind = "Macro" /\ ts[i].text \in DOMAIN macros

\* Some token of the stream is a macro the registry does not know.
HasUnknownMacro(ts) ==
    \E i \in 1..Len(ts) : ts[i].kind = "Macro" /\ ts[i].text \notin DOMAIN macros

\* C1: a math expression opened by `$' whose loop ends because the input
\* ends, not because the closing `$' was read, returns a non-nil error and
\* no node; so "$x" makes ParseExpr fail.
C1_UnterminatedMathExprFails ==
    /\ (ret.fn = "parseMathExpr" /\ ret.how = "eof")
          => (ret.err # NoErr /\ ret.node = Nil)
    /\ (toks = <<TDollar, TWord>> /\ result.set) => result.err # NoErr

\* C2: parseSub, the `_' not followed by `{': when the single token after it
\* parses without error, a Sub node with that node as its only child is
\* returned with a nil error; so "_x" parses to the list holding that Sub.
C2_SubSingleReturnsSub ==
    /\ (ret.fn = "parseSub" /\ ret.how = "single" /\ ret.err = NoErr)
          => (ret.node.kind = "Sub" /\ Len(ret.node.kids) = 1)
    /\ (toks = <<TUnder, TWord>> /\ result.set)
          => /\ result.err = NoErr
             /\ result.node =
                  List(<<Node("Sub", "_", 1, 0, <<Node("Word", "x", 2, 0, <<>>)>>)>>)

\* C3: parseSup, the `^' not followed by `{': the single token after it is
\* parsed, and a Sup with the node of that token as its only child is
\* returned; after a Word or Number operand the scanner stands on that
\* operand, one token after the `^'.  So x ^ 2 in Normal mode parses to
\* [Word x, Sup(Literal 2)] with no error.
C3_SupSingleOneToken ==
    /\ (ret.fn = "parseSup" /\ ret.how = "single" /\ ret.err = NoErr)
          => /\ ret.node.kind = "Sup"
             /\ Len(ret.node.kids) = 1
             /\ ret.node.pos < Len(toks)
             /\ LET t == toks[ret.node.pos + 1]
                    c == ret.node.kids[1]
                IN  t.kind \in {"Word", "Number"}
                      => /\ c = Node(IF t.kind = "Word" THEN "Word" ELSE "Literal",
                                     t.text, ret.node.pos + 1, 0, <<>>)
                         /\ pos = ret.node.pos + 1
    /\ (toks = <<TWord, THat, TNumber>> /\ result.set)
          => /\ result.err = NoErr
             /\ result.node =
                  List(<<Node("Word", "x", 1, 0, <<>>),
                         Node("Sup", "^", 2, 0, <<Node("Literal", "2", 3, 0, <<>>)>>)>>)

C3_Witness ==
    /\ toks = <<TWord, THat, TNumber>>
    /\ result.set
    /\ result.err = NoErr
    /\ Len(result.node.kids) = 2

\* C4: parseMacroArg goes on past its opening token only when that token is
\* `{'; otherwise it returns an error, so that every Arg in a macro's
\* argument list was opened by a `{'.
C4_MacroArgNeedsLbrace ==
    \A f \in Frames :
        /\ (f.fn = "parseMacroArg" /\ f.phase = "loop") => f.tok.text = "{"
        /\ f.fn = "macroParser"
              => \A i \in 1..Len(f.list) :
                    f.list[i].kind = "Arg"
                       => /\ f.list[i].pos \in 1..Len(toks)
                          /\ toks[f.list[i].pos].text = "{"

C6_EveryErrorIsFatal ==
    [][ret.err # NoErr => ret'.err # NoErr]_vars

\* C7: a Space token dispatched by parseNode yields no node in Math mode and
\* one Symbol node in Normal mode; "$x + y$" parses to one MathExpr whose
\* children are Word x, Symbol +, Word y.
C7_SpaceByMode ==
    /\ (ret.fn = "parseNode" /\ tok.kind = "Space")
          => /\ ret.err = NoErr
             /\ ret.node = IF state = "mathState"
                           THEN Nil
                           ELSE Node("Symbol", tok.text, tok.pos, 0, <<>>)
    /\ (toks = <<TDollar, TWord, TSpace, TPlus, TSpace, TWordY, TDollar>> /\ result.set)
          => /\ result.err = NoErr
             /\ result.node =
                  List(<<Node("MathExpr", "$", 1, 7,
                              <<Node("Word", "x", 2, 0, <<>>),
                                Node("Symbol", "+", 4, 0, <<>>),
                                Node("Word", "y", 6, 0, <<>>)>>)>>)

C7_Witness ==
    /\ toks = <<TDollar, TWord, TSpace, TPlus, TSpace, TWordY, TDollar>>
    /\ result.set
    /\ result.node.kids # <<>>
    /\ result.node.kids[1].kind = "MathExpr"

\* C8: the arguments of a Macro node stand in the order in which the
\* behaviour's argument parsers appended them: for \foo, which parses an
\* optional then a mandatory argument, an OptArg never follows an Arg and
\* an argument that follows a closed one was opened after it; and
\* \foo[opt]{mand} parses to Macro(OptArg[Word opt], Arg[Word mand]), the
\* bracket and brace tokens in no child list.
C8_MacroArgsInOrder ==
    /\ \A f \in Frames :
          f.fn = "macroParser"
             => \A i \in 1..Len(f.list), j \in 1..Len(f.list) :
                   i < j
                      => /\ ~(f.list[i].kind = "Arg" /\ f.list[j].kind = "OptArg")
                         /\ (f.list[i].right # 0 /\ f.list[j].pos # 0)
                               => f.list[i].right < f.list[j].pos
    /\ (toks = <<TFoo, TLbrack, TWordOpt, TRbrack, TLbrace, TWordMand, TRbrace>>
          /\ result.set)
          => /\ result.err = NoErr
             /\ result.node =
                  List(<<Node("Macro", "\\foo", 1, 0,
                              <<Node("OptArg", "", 2, 4, <<Node("Word", "opt", 3, 0, <<>>)>>),
                                Node("Arg", "", 5, 7, <<Node("Word", "mand", 6, 0, <<>>)>>)>>)>>)

C8_Witness ==
    /\ toks = <<TFoo, TLbrack, TWordOpt, TRbrack, TLbrace, TWordMand, TRbrace>>
    /\ result.set
    /\ result.node.kids # <<>>
    /\ Len(result.node.kids[1].kids) = 2

\* A class of well-formed inputs: words, numbers, spaces, comments and
\* plain symbols, `^' and `_' each followed by a word or a number, and `$'
\* in pairs.
IsDollar(t) == t.kind = "Symbol" /\ t.text = "$"

IsScript(t) == t.kind = "Symbol" /\ t.text \in {"^", "_"}

DollarsBefore(ts, i) == Cardinality({ j \in 1..(i - 1) : IsDollar(ts[j]) })

WellFormedFlat(ts) ==
    /\ DollarsBefore(ts, Len(ts) + 1) % 2 = 0
    /\ \A i \in 1..Len(ts) :
          \/ ts[i].kind \in {"Word", "Number", "Space", "Comment"}
          \/ ts[i].kind = "Symbol" /\ ~IsScript(ts[i])
          \/ IsScript(ts[i]) /\ i < Len(ts) /\ ts[i + 1].kind \in {"Word", "Number"}

\* The top-level constructs of such an input: the tokens outside every
\* `$' pair that are neither a comment nor the operand of a `^' or `_',
\* each `$' pair counting once, at its opening `$'.
TopLevel(ts) ==
    { i \in 1..Len(ts) :
        /\ ts[i].kind # "Comment"
        /\ DollarsBefore(ts, i) % 2 = 0
        /\ ~(i > 1 /\ IsScript(ts[i - 1])) }

\* C9: on a well-formed input ParseExpr returns no error and a List with one
\* node for each top-level construct, a comment giving none, in source
\* order.
C9_ListSizeIsTopLevelCount ==
    (result.set /\ WellFormedFlat(toks))
       => /\ result.err = NoErr
          /\ result.node.kind = "List"
          /\ Len(result.node.kids) = Cardinality(TopLevel(toks))
          /\ \A i \in 1..Len(result.node.kids) :
                result.node.kids[i].pos \in TopLevel(toks)
          /\ \A i \in 1..Len(result.node.kids), j \in 1..Len(result.node.kids) :
                i < j => result.node.kids[i].pos < result.node.kids[j].pos

ModeOf(stk) ==
    IF \E i \in 1..Len(stk) : stk[i].fn = "parseMathExpr" /\ stk[i].phase = "loop"
    THEN "mathState"
    ELSE "normalState"

\* C11: the mode follows the call stack.  It is Math exactly while a math
\* expression is being parsed; the mode a math expression saved is the mode
\* of its callers, and it is the mode again once parseMathExpr has returned,
\* however it returned; so it is Normal whenever the top-level loop pulls a
\* token and when ParseExpr returns, and Math while the children of a math
\* expression are parsed.
C11_ModeStackDiscipline ==
    /\ state = ModeOf(stack)
    /\ \A i \in 1..Len(stack) :
          (stack[i].fn = "parseMathExpr" /\ stack[i].phase = "loop")
             => stack[i].saved = ModeOf(SubSeq(stack, 1, i - 1))
    /\ ret.fn = "parseMathExpr" => state = ModeOf(stack)
    /\ (stack # <<>> /\ Top.fn = "parse") => state = "normalState"
    /\ result.set => state = "normalState"
    /\ (stack # <<>> /\ Top.fn = "parseMathExpr" /\ Top.phase = "loop")
          => state = "mathState"

\* A math expression nested in a brace group of another one has returned
\* through the error of a node of its own.
C11_Witness ==
    /\ ret.fn = "parseMathExpr"
    /\ ret.how = "err"
    /\ state = "mathState"
    /\ Len(stack) >= 3

\* C12: a `{' dispatched by parseNode in Normal mode returns an error and
\* no node; in Math mode it enters parseMathLbrace, which returns the List
\* of the nodes up to the matching `}'.  So "${(x)}^ $" parses to a
\* MathExpr whose first child is the List [Symbol (, Word x, Symbol )].
C12_LbraceByMode ==
    /\ (ret.fn = "parseNode" /\ tok.kind = "Lbrace")
          => /\ state = "normalState"
             /\ ret.err # NoErr
             /\ ret.node = Nil
    /\ \A f \in Frames :
          f.fn = "parseMathLbrace" => (state = "mathState" /\ f.tok.kind = "Lbrace")
    /\ (ret.fn = "parseMathLbrace" /\ ret.how = "close")
          => /\ ret.err = NoErr
             /\ ret.node.kind = "List"
             /\ tok.kind = "Rbrace"
             /\ state = "mathState"
             /\ \A i \in 1..Len(ret.node.kids) : ret.node.kids[i].pos < tok.pos
    /\ (toks = <<TDollar, TLbrace, TLparen, TWord, TRparen, TRbrace, THat, TSpace, TDollar>>
          /\ result.set)
          => /\ result.err = NoErr
             /\ result.node =
                  List(<<Node("MathExpr", "$", 1, 9,
                              <<List(<<Node("Symbol", "(", 3, 0, <<>>),
                                       Node("Word", "x", 4, 0, <<>>),
                                       Node("Symbol", ")", 5, 0, <<>>)>>),
                                Node("Sup", "^", 7, 0, <<Nil>>)>>)>>)

C12_Witness ==
    /\ ret.fn = "parseMathLbrace"
    /\ ret.how = "close"
    /\ Len(ret.node.kids) = 3
    /\ toks = <<TDollar, TLbrace, TLparen, TWord, TRparen, TRbrace, THat, TSpace, TDollar>>

\* The loops that end on a closing token other than a math delimiter.
GroupLoops ==
    {"parseMathLbrace", "parseSup", "parseSub", "parseMacroArg", "parseOptMacroArg"}

\* C13: a brace group, a braced superscript or subscript group, a mandatory
\* or an optional argument whose loop ends because the input ends, not
\* because its closing token was read, returns an error and no node, and
\* appends no argument: every Arg and OptArg of a macro is closed.
C13_UnterminatedGroupFails ==
    /\ (ret.fn \in GroupLoops /\ ret.how = "eof")
          => (ret.err # NoErr /\ ret.node = Nil)
    /\ \A f \in Frames :
          f.fn = "macroParser"
             => \A i \in 1..Len(f.list) : f.list[i].right # 0

\* C14: a Sup or Sub returned with a nil error has exactly one child, and
\* that child is not nil, in either mode.
C14_SupSubChildNotNil ==
    (ret.err = NoErr /\ ret.node.kind \in {"Sup", "Sub"})
       => /\ Len(ret.node.kids) = 1
          /\ ret.node.kids[1] # Nil

\* C15: parseOptMacroArg entered with the next raw character not `[' returns
\* a nil error at once: the scanner's position and token, the mode and
\* every caller's activation, the macro's argument list with them, are as
\* they were.
C15_OptArgAbsentNoEffect ==
    [][(Running("parseOptMacroArg") /\ Top.phase = "entry" /\ Peek # "[")
          => /\ pos' = pos
             /\ tok' = tok
             /\ state' = state
             /\ stack' = Front(stack)
             /\ ret'.fn = "parseOptMacroArg"
             /\ ret'.err = NoErr
             /\ ret'.node = Nil]_vars

\* An optional argument was found absent with a token still to read, and
\* that token has not been consumed.
C15_Witness ==
    /\ ret.fn = "parseOptMacroArg"
    /\ ret.how = "absent"
    /\ pos < Len(toks)
    /\ Top.fn = "macroParser"
    /\ Top.list = <<>>

\* No node of the list ks was built from the token at position p or q.
NoneBuiltFrom(ks, p, q) ==
    \A i \in 1..Len(ks) : ks[i].pos = 0 \/ ks[i].pos \notin {p, q}

\* The spans keep their delimiters out of their child lists: a MathExpr, a
\* brace group read to its `}', a braced superscript or subscript, and the
\* arguments of a macro.
DelimitersExcluded ==
    /\ (ret.fn = "parseMathExpr" /\ ret.err = NoErr)
          => NoneBuiltFrom(ret.node.kids, ret.node.pos, ret.node.right)
    /\ (ret.fn = "parseMathLbrace" /\ ret.how = "close")
          => NoneBuiltFrom(ret.node.kids, tok.pos, tok.pos)
    /\ (ret.fn \in {"parseSup", "parseSub"} /\ ret.how = "close")
          => NoneBuiltFrom(ret.node.kids[1].kids, ret.node.pos + 1, tok.pos)
    /\ \A f \in Frames :
          f.fn = "macroParser"
             => \A i \in 1..Len(f.list) :
                   NoneBuiltFrom(f.list[i].kids, f.list[i].pos, f.list[i].right)

\* C16: the tokens that open and close a span are in no child list of that
\* span, and every MathExpr returned with a nil error has its right
\* position on the closing delimiter that ended it.
C16_DelimitersExcludedRightSet ==
    /\ DelimitersExcluded
    /\ (ret.fn = "parseMathExpr" /\ ret.err = NoErr)
          => /\ ret.node.right \in 1..Len(toks)
             /\ ret.node.right = pos
             /\ toks[ret.node.right].text = "$"
             /\ ret.node.right > ret.node.pos

\* C17: a parsing function that returns a non-nil error returns a nil node
\* with it, whatever it had accumulated; so does ParseExpr.
C17_NilNodeOnError ==
    /\ (ret.err # NoErr
          /\ ret.fn \in {"parse", "parseNode", "parseMathExpr", "parseSup",
                         "parseSub", "parseMathLbrace"})
          => ret.node = Nil
    /\ (result.set /\ result.err # NoErr) => result.node = Nil

\* A math expression that had accumulated a node failed on its next one,
\* and ParseExpr has returned the error.
C17_Witness ==
    /\ result.set
    /\ result.err # NoErr
    /\ Len(toks) >= 3
    /\ IsDollar(toks[1])
    /\ toks[2].kind = "Word"
    /\ pos = 3


----------------------------------------------------------------------------
\* C18.

\* The innermost activation is at the head of its parsing loop, about to
\* call p.s.Next(): the top-level loop, or the loop of a math expression, of
\* a brace group, of a braced superscript or subscript, of a mandatory or of
\* an optional argument.
AtLoopHead ==
    /\ stack # <<>>
    /\ ret = NoRet
    /\ \/ Top.fn = "parse"
       \/ Top.fn \in {"parseMathExpr", "parseMathLbrace", "parseMacroArg",
                      "parseOptMacroArg"} /\ Top.phase = "loop"
       \/ Top.fn \in {"parseSup", "parseSub"} /\ Top.phase = "group"

\* C18: parse terminates on every finite token stream: ParseExpr eventually
\* returns; the position in the token stream never decreases; every
\* iteration of every parsing loop consumes one token; and a loop whose
\* token source is exhausted exits, its activation returning.
C18_ParseTerminates ==
    /\ <>(result.set)
    /\ [][/\ pos' >= pos
          /\ (AtLoopHead /\ HasNext) => pos' = pos + 1
          /\ (AtLoopHead /\ ~HasNext) =>
                /\ Len(stack') = Len(stack) - 1
                /\ ret' # NoRet]_vars

\* ParseExpr has returned after its top-level loop went through an input of
\* three tokens or more and left on the exhausted token source.
C18_Witness ==
    /\ result.set
    /\ ret.fn = "parse"
    /\ ret.how = "eof"
    /\ Len(toks) >= 3
    /\ pos = Len(toks)

----------------------------------------------------------------------------
\* C19.

\* C19: an Rbrace token that reaches parseNode, and the EOF token p.next()
\* hands to parseNode when an unbraced `^' is the last token, make parse
\* fail: the error parseNode returns for the kind is returned by every
\* caller up to ParseExpr.
C19_UndispatchedKindFails ==
    [][(ret.err.kind = "impossible" /\ ret.err.arg \in {"Rbrace", "EOF"})
          => ret'.err = ret.err]_vars

====
